---- MODULE Spec2Model ----
(* GravityDirection (src/components/gravity_direction.rs): a tuple struct   *)
(* around the math Vector, with constructors and setters selected by the    *)
(* "2d" / "3d" build feature.                                               *)
(*                                                                          *)
(* An f32 is modelled by an integer.  No operation of the type computes     *)
(* with, compares or inspects a component: components are only stored.      *)
(* A Vector is a record with the fields x, y (and z in a 3D build); a       *)
(* GravityDirection is the 1-tuple <<vector>>, so that the source's self.0  *)
(* is self[1].  A value convertible into a Vector is modelled by the array  *)
(* [f32; N], a sequence of N components.                                    *)
EXTENDS Integers, Sequences, FiniteSets

VARIABLES mode, g, op, pre, hist

vars == <<mode, g, op, pre, hist>>

\* Number of setter calls followed after one construction.
MaxOps == 2

\* The component values the operations are called with.
F32 == {-1, 1}

Modes == {"2d", "3d"}

----------------------------------------------------------------------------
(* The external vector type *)

Axes(m) == IF m = "2d" THEN {"x", "y"} ELSE {"x", "y", "z"}

Dim(m) == IF m = "2d" THEN 2 ELSE 3

Vector2(x, y) == [x |-> x, y |-> y]

Vector3(x, y, z) == [x |-> x, y |-> y, z |-> z]

\* Vector::default(): the zero vector.
VectorDefault(m) == IF m = "2d" THEN Vector2(0, 0) ELSE Vector3(0, 0, 0)

\* vec.into(): array -> Vector, component i of the array into the i-th axis.
Into(vec) ==
    IF Len(vec) = 2 THEN Vector2(vec[1], vec[2])
                    ELSE Vector3(vec[1], vec[2], vec[3])

\* The arrays convertible into the build's Vector.
Arrays(m) == [1..Dim(m) -> F32]

\* All vectors of the build over the given component values.
Vectors(m, V) == [Axes(m) -> V]

----------------------------------------------------------------------------
(* impl GravityDirection *)

default_zero_x_only(m) == <<[VectorDefault(m) EXCEPT !.y = 1]>>

\* #[derive(Default)]
default(m) == <<VectorDefault(m)>>

new(vec) == <<Into(vec)>>

from_xy(x, y) == <<Vector2(x, y)>>

from_xyz_swapped(x, y, z) == <<Vector3(x, z, y)>>

from_xyz(x, y, z) == <<Vector3(x, y, z)>>

set_x_only(self, vec) == [self EXCEPT ![1].x = Into(vec).x]

set(self, vec) == [self EXCEPT ![1] = Into(vec)]

set_xy_x_only(self, x, y) == [self EXCEPT ![1].x = x]

set_xy(self, x, y) == [self EXCEPT ![1].x = x, ![1].y = y]

set_xyz_no_z(self, x, y, z) == [self EXCEPT ![1].x = x, ![1].y = y]

set_xyz(self, x, y, z) == [self EXCEPT ![1].x = x, ![1].y = y, ![1].z = z]

set_x_normalizing(self, x) ==
    [self EXCEPT ![1] = [a \in DOMAIN self[1] |->
        IF a = "x" THEN x ELSE 0]]

set_x(self, x) == [self EXCEPT ![1].x = x]

set_y_rejecting(self, y) == IF y < 0 THEN <<>> ELSE [self EXCEPT ![1].y = y]

set_y(self, y) == [self EXCEPT ![1].y = y]

set_z_writes_y(self, z) == [self EXCEPT ![1].y = z]

set_z(self, z) == [self EXCEPT ![1].z = z]

\* Deref: the wrapper read as the inner vector.
deref(self) == self[1]

\* A whole-vector store into the inner vector: *self = v through
\* DerefMut::deref_mut, or self.0 = v through the public field.
store(self, v) == [self EXCEPT ![1] = v]

\* A store into one component of the inner vector: self.x = v through
\* DerefMut::deref_mut, or self.0.x = v through the public field.
store_axis(self, a, v) == [self EXCEPT ![1][a] = v]

Available_all(m) ==
    {"default", "new", "from_xy", "from_xyz", "set", "set_xy", "set_xyz",
     "set_x", "set_y", "set_z"}

\* The operations compiled in a build: #[cfg(feature = "2d" / "3d")].
Available(m) ==
    {"default", "new", "set", "set_x", "set_y"}
      \cup (IF m = "2d" THEN {"from_xy", "set_xy"} ELSE {})
      \cup (IF m = "3d" THEN {"from_xyz", "set_xyz", "set_z"} ELSE {})

----------------------------------------------------------------------------
(* The state machine: one value, constructed (Init) and then mutated.      *)
(*   g    the GravityDirection                                             *)
(*   op   the last operation, with its arguments                           *)
(*   pre  the value the last operation was called on (g for a constructor) *)
(*   hist the operations since, and including, the construction; a write   *)
(*        through DerefMut or the public field is recorded like a call.    *)
(*        Both give the caller the same &mut Vector, so the record does    *)
(*        not tell them apart.                                             *)

Call(name, args) == [name |-> name, args |-> args]

\* A setter mutates the value in place.
Mutate(name, args, result) ==
    /\ name \in Available(mode)
    /\ Len(hist) < 1 + MaxOps
    /\ g' = result
    /\ op' = Call(name, args)
    /\ pre' = g
    /\ hist' = Append(hist, Call(name, args))
    /\ mode' = mode

InitWith(m, name, args, result) ==
    /\ name \in Available(m)
    /\ mode = m
    /\ g = result
    /\ op = Call(name, args)
    /\ pre = result
    /\ hist = <<Call(name, args)>>

Init ==
    \E m \in Modes :
        \/ InitWith(m, "default", <<>>, default(m))
        \/ \E vec \in Arrays(m) : InitWith(m, "new", <<vec>>, new(vec))
        \/ \E x, y \in F32 : InitWith(m, "from_xy", <<x, y>>, from_xy(x, y))
        \/ \E x, y, z \in F32 :
               InitWith(m, "from_xyz", <<x, y, z>>, from_xyz(x, y, z))

Set == \E vec \in Arrays(mode) : Mutate("set", <<vec>>, set(g, vec))

SetXy == \E x, y \in F32 : Mutate("set_xy", <<x, y>>, set_xy(g, x, y))

SetXyz ==
    \E x, y, z \in F32 : Mutate("set_xyz", <<x, y, z>>, set_xyz(g, x, y, z))

SetX == \E x \in F32 : Mutate("set_x", <<x>>, set_x(g, x))

SetY == \E y \in F32 : Mutate("set_y", <<y>>, set_y(g, y))

SetZ == \E z \in F32 : Mutate("set_z", <<z>>, set_z(g, z))

\* A caller's write through the derived DerefMut or the public field 0;
\* it is part of every build.
PassThrough(name, args, result) ==
    /\ Len(hist) < 1 + MaxOps
    /\ g' = result
    /\ op' = Call(name, args)
    /\ pre' = g
    /\ hist' = Append(hist, Call(name, args))
    /\ mode' = mode

\* *g = v or g.0 = v: the whole inner vector is stored.
Store ==
    \E v \in Vectors(mode, F32) :
        PassThrough("store", <<v>>, store(g, v))

\* g.x = v or g.0.x = v (and so for y, z): one component is stored.
StoreAxis ==
    \E a \in Axes(mode), v \in F32 :
        PassThrough("store_axis", <<a, v>>, store_axis(g, a, v))

Next ==
    \/ Set
    \/ SetXy
    \/ SetXyz
    \/ SetX
    \/ SetY
    \/ SetZ
    \/ Store
    \/ StoreAxis

Spec == Init /\ [][Next]_vars

----------------------------------------------------------------------------
(* Properties *)

\* The axis a single-axis setter is named after.
AxisOf(name) ==
    IF name = "set_x" THEN "x" ELSE IF name = "set_y" THEN "y" ELSE "z"

SingleAxisSetters == {"set_x", "set_y", "set_z"}

\* C1: a single-axis setter (set_x, set_y, set_z) replaces exactly its own
\* axis with its argument and leaves every other axis as it was before the
\* call.
C1_SingleAxisFrame ==
    op.name \in SingleAxisSetters =>
        /\ DOMAIN deref(g) = DOMAIN deref(pre)
        /\ \A a \in Axes(mode) :
               deref(g)[a] = IF a = AxisOf(op.name) THEN op.args[1]
                                                    ELSE deref(pre)[a]

\* set_z(1) on a 3D value whose z was 0 and whose other axes differ from 1.
C1_Witness ==
    /\ mode = "3d"
    /\ op = Call("set_z", <<1>>)
    /\ deref(pre) = Vector3(-1, 0, 0)
    /\ deref(g) = Vector3(-1, 0, 1)

\* The axes an operation writes, and the value it writes to each.
Writes(c, m) ==
    IF c.name \in SingleAxisSetters THEN {AxisOf(c.name)}
    ELSE IF c.name = "store_axis" THEN {c.args[1]}
    ELSE Axes(m)

Written(c, a) ==
    IF c.name = "default" THEN 0
    ELSE IF c.name \in {"new", "set"}
        THEN c.args[1][IF a = "x" THEN 1 ELSE IF a = "y" THEN 2 ELSE 3]
    ELSE IF c.name \in SingleAxisSetters THEN c.args[1]
    ELSE IF c.name = "store" THEN c.args[1][a]
    ELSE IF c.name = "store_axis" THEN c.args[2]
    ELSE c.args[IF a = "x" THEN 1 ELSE IF a = "y" THEN 2 ELSE 3]

RECURSIVE LastWrite(_, _, _)
\* The value given by the most recent operation of h that wrote axis a.
LastWrite(h, a, m) ==
    IF a \in Writes(h[Len(h)], m) THEN Written(h[Len(h)], a)
    ELSE LastWrite(SubSeq(h, 1, Len(h) - 1), a, m)

\* C2: after a construction and any sequence of setter calls, a read of each
\* axis returns the value given by the most recent operation that wrote that
\* axis (the constructor if no setter wrote it since); nothing is rescaled.
\* A caller's write through DerefMut or the public field, which is not a
\* setter call, counts as the operation that wrote the axes it stores.
C2_LastWriteWins ==
    \A a \in Axes(mode) : deref(g)[a] = LastWrite(hist, a, mode)

\* Two set_x calls with different arguments after new: x is the second
\* argument, y is still the constructor's.
C2_Witness ==
    /\ Len(hist) = 3
    /\ hist[1].name = "new"
    /\ hist[2].name = "set_x"
    /\ hist[3].name = "set_x"
    /\ hist[2].args # hist[3].args
    /\ deref(g).x = hist[3].args[1]
    /\ deref(g).y = hist[1].args[1][2]
    /\ deref(g).y # deref(g).x

\* C3: set(v) followed by a read yields v's converted form in every axis,
\* whatever the stored vector was before the call.
C3_SetReplacesWhole ==
    op.name = "set" =>
        /\ deref(g) = Into(op.args[1])
        /\ \A a \in Axes(mode) : deref(g)[a] = Written(op, a)

\* set(v) on a value that differed from v in every axis.
C3_Witness ==
    /\ op.name = "set"
    /\ mode = "3d"
    /\ \A a \in Axes(mode) : deref(pre)[a] # deref(g)[a]
    /\ deref(g) = Vector3(op.args[1][1], op.args[1][2], op.args[1][3])

\* C4: the combined setter (set_xy in 2D, set_xyz in 3D) overwrites exactly
\* the axes it names; afterwards the read vector is (x, y) resp. (x, y, z)
\* regardless of the prior value.
C4_CombinedSetter ==
    /\ op.name = "set_xy" =>
           /\ DOMAIN deref(g) = {"x", "y"}
           /\ deref(g).x = op.args[1]
           /\ deref(g).y = op.args[2]
    /\ op.name = "set_xyz" =>
           /\ DOMAIN deref(g) = {"x", "y", "z"}
           /\ deref(g).x = op.args[1]
           /\ deref(g).y = op.args[2]
           /\ deref(g).z = op.args[3]

\* set_xyz(1, -1, 1) on the default value.
C4_Witness ==
    /\ op = Call("set_xyz", <<1, -1, 1>>)
    /\ deref(pre) = Vector3(0, 0, 0)
    /\ deref(g) = Vector3(1, -1, 1)

\* C5: the explicit-axis constructor (from_xy in 2D, from_xyz in 3D) followed
\* by a read yields exactly (x, y[, z]), each argument in the axis of the
\* same name and position.
C5_FromAxes ==
    /\ op.name = "from_xy" =>
           /\ DOMAIN deref(g) = {"x", "y"}
           /\ deref(g).x = op.args[1]
           /\ deref(g).y = op.args[2]
    /\ op.name = "from_xyz" =>
           /\ DOMAIN deref(g) = {"x", "y", "z"}
           /\ deref(g).x = op.args[1]
           /\ deref(g).y = op.args[2]
           /\ deref(g).z = op.args[3]

\* from_xyz(-1, 1, -1): the y argument differs from both the x and the z
\* argument.
C5_Witness ==
    /\ op = Call("from_xyz", <<-1, 1, -1>>)
    /\ deref(g).x = -1
    /\ deref(g).y = 1
    /\ deref(g).z = -1

\* C6: default construction yields the zero vector in every axis of the
\* build (x and y in 2D; x, y and z in 3D).
C6_DefaultZero ==
    op.name = "default" =>
        /\ DOMAIN deref(g) = Axes(mode)
        /\ \A a \in Axes(mode) : deref(g)[a] = 0

\* A default-constructed 3D value.
C6_Witness ==
    /\ op = Call("default", <<>>)
    /\ mode = "3d"
    /\ hist = <<op>>
    /\ deref(g) = Vector3(0, 0, 0)

\* The operations each build is expected to offer.
ExpectedOps(m) ==
    IF m = "2d"
        THEN {"default", "new", "from_xy", "set", "set_xy", "set_x", "set_y"}
        ELSE {"default", "new", "from_xyz", "set", "set_xyz", "set_x",
              "set_y", "set_z"}

\* The writes every build offers besides the methods: the derived DerefMut
\* and the public field.
PassThroughOps == {"store", "store_axis"}

\* A setter may be called as long as the modelled call sequence has room.
Room == Len(hist) < 1 + MaxOps

\* A well-formed GravityDirection of the build: one inner vector with
\* exactly the build's axes, each holding a component value.
IsValue(v, m) ==
    /\ Len(v) = 1
    /\ deref(v) \in Vectors(m, F32 \cup {0})

\* C7: every operation is total: for every input and every prior state it
\* completes and returns or stores a value of the type; no reachable state
\* is an error state.
C7_Total ==
    /\ IsValue(g, mode)
    /\ IsValue(default(mode), mode)
    /\ \A vec \in Arrays(mode) : IsValue(new(vec), mode)
    /\ mode = "2d" => \A x, y \in F32 : IsValue(from_xy(x, y), mode)
    /\ mode = "3d" => \A x, y, z \in F32 : IsValue(from_xyz(x, y, z), mode)
    /\ Room =>
           /\ \A vec \in Arrays(mode) :
                  ENABLED Mutate("set", <<vec>>, set(g, vec))
           /\ \A x \in F32 : ENABLED Mutate("set_x", <<x>>, set_x(g, x))
           /\ \A y \in F32 : ENABLED Mutate("set_y", <<y>>, set_y(g, y))
           /\ mode = "2d" =>
                  \A x, y \in F32 :
                      ENABLED Mutate("set_xy", <<x, y>>, set_xy(g, x, y))
           /\ mode = "3d" =>
                  /\ \A x, y, z \in F32 :
                         ENABLED Mutate("set_xyz", <<x, y, z>>,
                                        set_xyz(g, x, y, z))
                  /\ \A z \in F32 :
                         ENABLED Mutate("set_z", <<z>>, set_z(g, z))

\* A value that went through a constructor and two setters, one of them
\* set_y with a negative argument.
C7_Witness ==
    /\ Len(hist) = 3
    /\ hist[2] = Call("set_y", <<-1>>)
    /\ hist[3].name = "set"
    /\ Len(g) = 1

\* C8: the operations are fixed by the build mode and exactly one mode
\* holds: from_xy and set_xy only in 2D; from_xyz, set_xyz and set_z only in
\* 3D; new, set, set_x and set_y in both.  A 2D value has exactly the axes
\* x and y, and no operation, a pass-through write included, touches a z
\* axis there.
C8_ModeFixesOperations ==
    /\ mode \in Modes
    /\ \A i \in 1..Len(hist) :
           /\ hist[i].name \in ExpectedOps(mode) \cup PassThroughOps
           /\ hist[i].name = "store_axis" =>
                  hist[i].args[1] \in Axes(mode)
    /\ op.name \in ExpectedOps(mode) \cup PassThroughOps
    /\ mode = "2d" => DOMAIN deref(g) = {"x", "y"}
    /\ mode = "3d" => DOMAIN deref(g) = {"x", "y", "z"}
    /\ hist[1].name \in {"default", "new", "from_xy", "from_xyz"}
    /\ hist[1].name = "from_xy" => mode = "2d"
    /\ hist[1].name = "from_xyz" => mode = "3d"
    /\ \A i \in 2..Len(hist) :
           hist[i].name \notin {"default", "new", "from_xy", "from_xyz"}
    /\ Room =>
           /\ ENABLED Set
           /\ ENABLED SetX
           /\ ENABLED SetY
           /\ ENABLED SetXy <=> mode = "2d"
           /\ ENABLED SetXyz <=> mode = "3d"
           /\ ENABLED SetZ <=> mode = "3d"

\* A 2D value built by from_xy and mutated by set_xy and set_y.
C8_Witness ==
    /\ mode = "2d"
    /\ Len(hist) = 3
    /\ hist[1].name = "from_xy"
    /\ hist[2].name = "set_xy"
    /\ hist[3].name = "set_y"

\* C9: set_y(y) sets the x-component of the gravity direction to the given
\* value, as the documentation comment of set_y states.
C9_SetYSetsX ==
    op.name = "set_y" => deref(g).x = op.args[1]

\* C10: setters of different axes commute and compose to the combined
\* setter: set_x(x), set_y(y) (and set_z(z) in 3D) in any order yield the
\* same stored vector as set_xy(x, y) resp. set_xyz(x, y, z), and the same
\* as set(v) for v built from those values.
C10_SettersCommute ==
    /\ mode = "2d" =>
           \A x, y \in F32 :
               LET both == set_xy(g, x, y)
                   gx == set_x(g, x)
                   gy == set_y(g, y)
               IN  /\ set_y(gx, y) = both
                   /\ set_x(gy, x) = both
                   /\ set(g, <<x, y>>) = both
                   /\ deref(both) = Vector2(x, y)
    /\ mode = "3d" =>
           \A x, y, z \in F32 :
               LET all == set_xyz(g, x, y, z)
                   gx == set_x(g, x)
                   gy == set_y(g, y)
                   gz == set_z(g, z)
               IN  /\ set_z(set_y(gx, y), z) = all
                   /\ set_y(set_z(gx, z), y) = all
                   /\ set_z(set_x(gy, x), z) = all
                   /\ set_x(set_z(gy, z), x) = all
                   /\ set_y(set_x(gz, x), y) = all
                   /\ set_x(set_y(gz, y), x) = all
                   /\ set(g, <<x, y, z>>) = all
                   /\ deref(all) = Vector3(x, y, z)
    /\ (Len(hist) = 3 /\ {hist[2].name, hist[3].name} = {"set_x", "set_y"}) =>
           \A c \in {2, 3} :
               deref(g)[AxisOf(hist[c].name)] = hist[c].args[1]

\* set_y then set_x on a default 2D value: the stored vector is the one
\* set_xy gives.
C10_Witness ==
    /\ mode = "2d"
    /\ Len(hist) = 3
    /\ hist[1].name = "default"
    /\ hist[2].name = "set_y"
    /\ hist[3].name = "set_x"
    /\ g = set_xy(default(mode), hist[3].args[1], hist[2].args[1])

====
